---- MODULE Spec2Model ----
(***************************************************************************)
(* Model of models/matcher.py: HungarianMatcher (the cost matrix of a      *)
(* batch and the linear sum assignment solved on each batch element).      *)
(*                                                                         *)
(* Tensors are sequences (1-based): a [n, m] tensor is a sequence of n     *)
(* rows of length m. Index VALUES the program returns (pred_indices,       *)
(* target_indices, class labels) are kept 0-based as in the source.        *)
(*                                                                         *)
(* Numbers are exact. Keypoint encodings are integers. A class logit is    *)
(* written as the integer w that stands for the logit ln(w), so that       *)
(* softmax is exactly w_c / (w_1 + ... + w_n). Costs are kept as integers  *)
(* in units of 1 / (ProbUnit * WeightDen(self)).                            *)
(***************************************************************************)
EXTENDS Integers, Sequences, FiniteSets, TLC

\* ------------------------------------------------------------------------
\* Arithmetic helpers
\* ------------------------------------------------------------------------

Abs(x) == IF x < 0 THEN -x ELSE x

Min2(a, b) == IF a < b THEN a ELSE b

RECURSIVE Gcd(_, _)
Gcd(a, b) == IF b = 0 THEN a ELSE Gcd(b, a % b)

Lcm(a, b) == (a * b) \div Gcd(a, b)

RECURSIVE LcmUpTo(_)
LcmUpTo(n) == IF n <= 1 THEN 1 ELSE Lcm(n, LcmUpTo(n - 1))

RECURSIVE SumUpTo(_, _)
SumUpTo(s, n) == IF n = 0 THEN 0 ELSE s[n] + SumUpTo(s, n - 1)

SumSeq(s) == SumUpTo(s, Len(s))

RECURSIVE Concat(_)
Concat(ss) == IF ss = <<>> THEN <<>> ELSE Head(ss) \o Concat(Tail(ss))

\* ------------------------------------------------------------------------
\* scipy.optimize.linear_sum_assignment (rectangular LSAP, the modified
\* Jonker-Volgenant shortest augmenting path algorithm the matcher calls).
\* Rows and columns are 1-based inside the solver; 0 stands for "none" (-1).
\* ------------------------------------------------------------------------

NumRows(cost) == Len(cost)

NumCols(cost) == IF Len(cost) = 0 THEN 0 ELSE Len(cost[1])

Transpose(cost) ==
    [j \in 1..NumCols(cost) |-> [i \in 1..NumRows(cost) |-> cost[i][j]]]

\* The for loop over the remaining columns of one pass of augmenting_path:
\* relaxes the shortest path costs from row s.i and finds the lowest one,
\* preferring, among equal costs, a column that is still unassigned.
\* s.fin is the set of columns whose shortest path cost is finite.
RECURSIVE ScanRemaining(_, _, _, _, _, _)
ScanRemaining(cost, u, v, row4col, s, it) ==
    IF it > Len(s.remaining) THEN s
    ELSE
      LET j == s.remaining[it]
          r == s.minVal + cost[s.i][j] - u[s.i] - v[j]
          relax == j \notin s.fin \/ r < s.spc[j]
          spcj == IF relax THEN r ELSE s.spc[j]
          take == \/ s.index = 0
                  \/ spcj < s.lowest
                  \/ (spcj = s.lowest /\ row4col[j] = 0)
          s1 == [s EXCEPT !.path[j] = IF relax THEN s.i ELSE @,
                          !.spc[j] = spcj,
                          !.fin = @ \cup {j},
                          !.lowest = IF take THEN spcj ELSE @,
                          !.index = IF take THEN it ELSE @]
      IN ScanRemaining(cost, u, v, row4col, s1, it + 1)

\* The end of one pass of the while loop, after the scan s1: the lowest
\* column j leaves remaining (the last one takes its place) and joins SC; it
\* is the sink if unassigned, else its row is scanned next.
AfterScan(row4col, s1) ==
    LET j == s1.remaining[s1.index]
        n == Len(s1.remaining)
    IN [s1 EXCEPT !.minVal = s1.lowest,
                  !.sink = IF row4col[j] = 0 THEN j ELSE 0,
                  !.i = IF row4col[j] = 0 THEN @ ELSE row4col[j],
                  !.SC = @ \cup {j},
                  !.remaining = [k \in 1..(n - 1) |->
                                   IF k = s1.index THEN s1.remaining[n]
                                   ELSE s1.remaining[k]]]

\* The while loop of augmenting_path: grows the alternating tree from the
\* current row until an unassigned column (the sink) is reached.
RECURSIVE AugmentingLoop(_, _, _, _, _)
AugmentingLoop(cost, u, v, row4col, s) ==
    IF s.sink # 0 THEN s
    ELSE AugmentingLoop(cost, u, v, row4col,
           AfterScan(row4col,
             ScanRemaining(cost, u, v, row4col,
               [s EXCEPT !.SR = @ \cup {s.i}, !.index = 0, !.lowest = 0], 1)))

augmenting_path(cost, u, v, path, row4col, curRow) ==
    AugmentingLoop(cost, u, v, row4col,
      [i |-> curRow, minVal |-> 0, sink |-> 0,
       remaining |-> [it \in 1..NumCols(cost) |-> NumCols(cost) - it + 1],
       path |-> path, spc |-> [j \in 1..NumCols(cost) |-> 0], fin |-> {},
       SR |-> {}, SC |-> {}, index |-> 0, lowest |-> 0])

\* "augment previous solution": walks the path back from the sink.
RECURSIVE AugmentBack(_, _, _, _)
AugmentBack(path, curRow, m, j) ==
    LET i == path[j]
        jNext == m.col4row[i]
        m1 == [m EXCEPT !.row4col[j] = i, !.col4row[i] = j]
    IN IF i = curRow THEN m1 ELSE AugmentBack(path, curRow, m1, jNext)

\* The dual variables of solve() after the augmenting path s of curRow
UpdateDuals(cost, d, curRow, s) ==
    [u |-> [i \in 1..NumRows(cost) |->
              IF i = curRow THEN d.u[i] + s.minVal
              ELSE IF i \in s.SR
                   THEN d.u[i] + s.minVal - s.spc[d.col4row[i]]
                   ELSE d.u[i]],
     v |-> [j \in 1..NumCols(cost) |->
              IF j \in s.SC THEN d.v[j] - (s.minVal - s.spc[j])
              ELSE d.v[j]],
     path |-> s.path, sink |-> s.sink,
     col4row |-> d.col4row, row4col |-> d.row4col]

\* The assignment of solve() after the path found for curRow is augmented
Augmented(d, curRow, m) ==
    [d EXCEPT !.col4row = m.col4row, !.row4col = m.row4col]

AugmentRow(d, curRow) ==
    Augmented(d, curRow,
      AugmentBack(d.path, curRow,
                  [col4row |-> d.col4row, row4col |-> d.row4col], d.sink))

\* The for loop over curRow of solve(), for a cost with nr <= nc.
RECURSIVE SolveRows(_, _, _)
SolveRows(cost, d, curRow) ==
    IF curRow > NumRows(cost) THEN d
    ELSE SolveRows(cost,
           AugmentRow(
             UpdateDuals(cost, d, curRow,
               augmenting_path(cost, d.u, d.v, d.path, d.row4col, curRow)),
             curRow),
           curRow + 1)

\* col4row of solve() for a cost with nr <= nc
Col4Row(cost) ==
    SolveRows(cost,
              [u |-> [i \in 1..NumRows(cost) |-> 0],
               v |-> [j \in 1..NumCols(cost) |-> 0],
               path |-> [j \in 1..NumCols(cost) |-> 0], sink |-> 0,
               col4row |-> [i \in 1..NumRows(cost) |-> 0],
               row4col |-> [j \in 1..NumCols(cost) |-> 0]],
              1).col4row

\* The rows that are assigned to some column, in increasing order
RECURSIVE SortedSeq(_)
SortedSeq(S) ==
    IF S = {} THEN <<>>
    ELSE LET x == CHOOSE y \in S : \A z \in S : y <= z
         IN <<x>> \o SortedSeq(S \ {x})

\* the result for a tall cost, from the assignment c4r (column -> row) of
\* its transpose: the pairs sorted by row
SortedByRow(c4r, rows) ==
    << [k \in 1..Len(rows) |-> rows[k] - 1],
       [k \in 1..Len(rows) |->
          (CHOOSE j \in 1..Len(c4r) : c4r[j] = rows[k]) - 1] >>

SolveTall(c4r) == SortedByRow(c4r, SortedSeq({c4r[j] : j \in 1..Len(c4r)}))

\* the result for a cost with nr <= nc, from the assignment c4r (row -> column)
SolveWide(c4r) ==
    << [i \in 1..Len(c4r) |-> i - 1], [i \in 1..Len(c4r) |-> c4r[i] - 1] >>

\* the body of linear_sum_assignment: solve() and the sorting of its result
Solve(cost) ==
    IF NumRows(cost) = 0 \/ NumCols(cost) = 0 THEN << <<>>, <<>> >>
    ELSE IF NumCols(cost) < NumRows(cost)
    THEN SolveTall(Col4Row(Transpose(cost)))
    ELSE SolveWide(Col4Row(cost))

\* Mutant: greedy, row by row the cheapest column not yet taken (of the
\* transposed cost when it is tall)
RECURSIVE GreedyRows(_, _, _)
GreedyRows(cost, i, taken) ==
    IF i > NumRows(cost) THEN <<>>
    ELSE LET free == (1..NumCols(cost)) \ taken
             j == CHOOSE x \in free : \A y \in free :
                     cost[i][x] < cost[i][y] \/ (cost[i][x] = cost[i][y] /\ x <= y)
         IN <<j>> \o GreedyRows(cost, i + 1, taken \cup {j})

lsa_greedy(cost) ==
    LET nr == NumRows(cost)
        nc == NumCols(cost)
    IN IF nr = 0 \/ nc = 0 THEN << <<>>, <<>> >>
       ELSE IF nc < nr
       THEN LET c4r == GreedyRows(Transpose(cost), 1, {})
                rows == SortedSeq({c4r[j] : j \in 1..nc})
            IN << [k \in 1..nc |-> rows[k] - 1],
                  [k \in 1..nc |->
                     (CHOOSE j \in 1..nc : c4r[j] = rows[k]) - 1] >>
       ELSE LET c4r == GreedyRows(cost, 1, {})
            IN << [i \in 1..nr |-> i - 1], [i \in 1..nr |-> c4r[i] - 1] >>

\* Mutant: no optimisation, row i is given column i
lsa_identity(cost) ==
    LET m == Min2(NumRows(cost), NumCols(cost))
    IN << [i \in 1..m |-> i - 1], [i \in 1..m |-> i - 1] >>

\* linear_sum_assignment(cost): the pair (row_ind, col_ind), 0-based, with
\* row_ind increasing. A tall cost (more rows than columns) is transposed,
\* solved, and the result is sorted back by row.
linear_sum_assignment(cost) == Solve(cost)

\* ------------------------------------------------------------------------
\* Tensor operations used by forward_
\* ------------------------------------------------------------------------

\* t.flatten(0, 1): [bs, n, d] -> [bs * n, d]
Flatten01(t) == Concat(t)

\* Exact arithmetic on class probabilities: every possible denominator of a
\* softmax over NumClasses logits with weights in 1..MaxLogit divides ProbUnit.
NumClasses == 2
MaxLogit == 3
ProbUnit == LcmUpTo(NumClasses * MaxLogit)

\* row.softmax(-1), in units of 1 / ProbUnit (the logit of class c is ln(row[c]))
softmax(row) == [c \in 1..Len(row) |-> (row[c] * ProbUnit) \div SumSeq(row)]

\* row[a:b] of Python (0-based, end exclusive, clipped to the row)
Slice(row, a, b) == SubSeq(row, a + 1, Min2(b, Len(row)))

\* torch.cat(list of [n_i, d] tensors) along dim 0
cat(ts) == Concat(ts)

\* torch.repeat_interleave(row, n): every entry repeated n times in a row
repeat_interleave(row, n) ==
    [k \in 1..(n * Len(row)) |-> row[((k - 1) \div n) + 1]]

\* torch.repeat_interleave(c.unsqueeze(1), K, dim=1).view(-1, 2K) on one row:
\* [2] -> [1, 2] -> [K, 2] -> [2K], the pair (cx, cy) K times
ExpandCenter(c, K) == Concat([k \in 1..K |-> c])

AddRows(a, b) == [k \in 1..Len(a) |-> a[k] + b[k]]

MulRows(a, b) == [k \in 1..Len(a) |-> a[k] * b[k]]

\* torch.cdist(x, y, p=1) for one pair of rows
cdist1(a, b) == SumSeq([k \in 1..Len(a) |-> Abs(a[k] - b[k])])

\* torch.cdist(x, y, p=2).square() for one pair of rows
cdist2sq(a, b) == SumSeq([k \in 1..Len(a) |-> (a[k] - b[k]) * (a[k] - b[k])])

\* ------------------------------------------------------------------------
\* HungarianMatcher
\* ------------------------------------------------------------------------

\* HungarianMatcher.__init__(**kwargs): kwargs.given is the set of the names
\* of the arguments given explicitly, the other fields of kwargs are their
\* values. Float weights are kept as fractions <<numerator, denominator>>;
\* cost_class is integral.
\* Mutant: joint mode is the default
splited_default_joint == FALSE

\* the default of __init__'s argument splited
splited_default == TRUE

HungarianMatcher(kwargs) ==
    [splited |-> IF "splited" \in kwargs.given THEN kwargs.splited
                 ELSE splited_default,
     num_keypoints |-> IF "num_keypoints" \in kwargs.given
                       THEN kwargs.num_keypoints ELSE 24,
     cost_class |-> IF "cost_class" \in kwargs.given
                    THEN kwargs.cost_class ELSE 1,
     l_deltas |-> <<1, 2>>,
     l_vis |-> <<1, 5>>,
     l_ctr |-> <<1, 2>>,
     l_abs |-> <<4, 1>>]

\* build_matcher(args)
build_matcher(args) ==
    HungarianMatcher([given |-> {"cost_class", "num_keypoints"},
                      cost_class |-> args.set_cost_class,
                      num_keypoints |-> args.num_keypoints,
                      splited |-> FALSE])

\* the command line parser's defaults of the two arguments build_matcher reads
ParserDefaults == [set_cost_class |-> 1, num_keypoints |-> 24]

\* Costs are integers in units of 1 / (ProbUnit * WeightDen(self)).
WeightDen(self) ==
    Lcm(Lcm(self.l_deltas[2], self.l_vis[2]), Lcm(self.l_ctr[2], self.l_abs[2]))

Weight(self, w) == w[1] * (WeightDen(self) \div w[2])

\* cost_class = -out_prob[:, tgt_ids]   (labels are 0-based class ids)
cost_class(out_prob, tgt_ids) ==
    [n \in 1..Len(out_prob) |->
       [t \in 1..Len(tgt_ids) |-> -out_prob[n][tgt_ids[t] + 1]]]

\* Mutant: the visibilities tiled (v0, v1, v0, v1) instead of interleaved
Vgt_tiled(V_gt) ==
    [t \in 1..Len(V_gt) |->
       [k \in 1..(2 * Len(V_gt[t])) |-> V_gt[t][((k - 1) % Len(V_gt[t])) + 1]]]

\* Vgt_ = torch.repeat_interleave(V_gt, 2, dim=1)
Vgt_(V_gt) == [t \in 1..Len(V_gt) |-> repeat_interleave(V_gt[t], 2)]

\* Mutant: only the prediction is masked by the visibility
MaskedL1_pred_only(X_pred, Vgt, X_gt) ==
    [n \in 1..Len(X_pred) |->
       [t \in 1..Len(X_gt) |-> cdist1(MulRows(X_pred[n], Vgt[t]), X_gt[t])]]

\* torch.cat([cdist(X_pred * v, x_gt * v, p=1) for v, x_gt in zip(Vgt, X_gt)], dim=1)
\* (the list comprehension of offset_loss and of abs_loss)
MaskedL1(X_pred, Vgt, X_gt) ==
    [n \in 1..Len(X_pred) |->
       [t \in 1..Len(X_gt) |->
          cdist1(MulRows(X_pred[n], Vgt[t]), MulRows(X_gt[t], Vgt[t]))]]

offset_loss(Z_pred, Vgt, Z_gt) == MaskedL1(Z_pred, Vgt, Z_gt)

abs_loss(A_pred, Vgt, A_gt) == MaskedL1(A_pred, Vgt, A_gt)

viz_loss(V_pred, V_gt) ==
    [n \in 1..Len(V_pred) |-> [t \in 1..Len(V_gt) |-> cdist2sq(V_pred[n], V_gt[t])]]

center_loss(C_pred, C_gt) ==
    [n \in 1..Len(C_pred) |-> [t \in 1..Len(C_gt) |-> cdist2sq(C_pred[n], C_gt[t])]]

\* A = C_expand + Z for every row of a [n, 2 + 3K] keypoint tensor
AbsolutePositions(kp, K) ==
    [n \in 1..Len(kp) |->
       AddRows(ExpandCenter(Slice(kp[n], 0, 2), K), Slice(kp[n], 2, 2 + K * 2))]

\* The tensors of forward_ up to the five pairwise terms, each of shape
\* [bs * num_queries, T] with T the number of targets of the whole call
LossTerms(self, outputs, targets) ==
    LET K == self.num_keypoints
        logits == Flatten01(outputs.labels)
        out_prob == [n \in 1..Len(logits) |-> softmax(logits[n])]
        out_keypoints == Flatten01(outputs.keypoints)
        N == Len(out_keypoints)
        C_pred == [n \in 1..N |-> Slice(out_keypoints[n], 0, 2)]
        Z_pred == [n \in 1..N |-> Slice(out_keypoints[n], 2, 2 + K * 2)]
        V_pred == [n \in 1..N |->
                     Slice(out_keypoints[n], 2 + K * 2, Len(out_keypoints[n]))]
        tgt_ids == cat([b \in 1..Len(targets) |-> targets[b].labels])
        tgt_keypoints == cat([b \in 1..Len(targets) |-> targets[b].keypoints])
        T == Len(tgt_keypoints)
        C_gt == [t \in 1..T |-> Slice(tgt_keypoints[t], 0, 2)]
        Z_gt == [t \in 1..T |-> Slice(tgt_keypoints[t], 2, 2 + K * 2)]
        V_gt == [t \in 1..T |->
                   Slice(tgt_keypoints[t], 2 + K * 2, Len(tgt_keypoints[t]))]
        A_gt == AbsolutePositions(tgt_keypoints, K)
        A_pred == AbsolutePositions(out_keypoints, K)
        Vgt == Vgt_(V_gt)
    IN [cost_class |-> cost_class(out_prob, tgt_ids),
        offset_loss |-> offset_loss(Z_pred, Vgt, Z_gt),
        viz_loss |-> viz_loss(V_pred, V_gt),
        center_loss |-> center_loss(C_pred, C_gt),
        abs_loss |-> abs_loss(A_pred, Vgt, A_gt)]

\* C = self.cost_class * cost_class + self.l_deltas * offset_loss + ...
WeightedSum(self, L) ==
    [n \in 1..Len(L.cost_class) |->
       [t \in 1..Len(L.cost_class[n]) |->
          self.cost_class * WeightDen(self) * L.cost_class[n][t]
          + ProbUnit * ( Weight(self, self.l_deltas) * L.offset_loss[n][t]
                       + Weight(self, self.l_vis) * L.viz_loss[n][t]
                       + Weight(self, self.l_ctr) * L.center_loss[n][t]
                       + Weight(self, self.l_abs) * L.abs_loss[n][t] )]]

\* The cost tensor C of forward_ before the view: [bs * num_queries, T]
CostMatrix(self, outputs, targets) ==
    WeightedSum(self, LossTerms(self, outputs, targets))

\* sizes = [len(v["keypoints"]) for v in targets]
sizes(targets) == [b \in 1..Len(targets) |-> Len(targets[b].keypoints)]

\* Mutant: the cost is not split, every element is matched against all columns
SplitChunk_unsplit(C, bs, num_queries, sz, i) ==
    [b \in 1..bs |->
       [q \in 1..num_queries |-> C[(b - 1) * num_queries + q]]]

\* C.view(bs, num_queries, -1).split(sizes, -1)[i]: the columns of the i-th
\* target entry, for every batch element and query: [bs, num_queries, sizes[i]]
SplitChunk(C, bs, num_queries, sz, i) ==
    LET offset == SumSeq(SubSeq(sz, 1, i - 1))
    IN [b \in 1..bs |->
          [q \in 1..num_queries |->
             [t \in 1..sz[i] |-> C[(b - 1) * num_queries + q][offset + t]]]]

Ok(v) == [ok |-> TRUE, value |-> v, error |-> ""]

Raise(e) == [ok |-> FALSE, value |-> <<>>, error |-> e]

NoTerms == [cost_class |-> <<>>, offset_loss |-> <<>>, viz_loss |-> <<>>,
            center_loss |-> <<>>, abs_loss |-> <<>>]

\* One forward_ call: what it returns (the list of (index_i, index_j)) or the
\* exception it ends with, and its local tensors: the five pairwise terms and
\* the matrices c[i] handed to linear_sum_assignment.
forward_(self, outputs, targets) ==
    LET bs == Len(outputs.labels)
        num_queries == Len(outputs.labels[1])
        sz == sizes(targets)
        L == LossTerms(self, outputs, targets)
        C == WeightedSum(self, L)
        c == [i \in 1..Min2(Len(targets), bs) |->
                SplitChunk(C, bs, num_queries, sz, i)[i]]
    IN IF Len(targets) = 0     \* torch.cat of an empty list (tgt_ids)
       THEN [ret |-> Raise("RuntimeError"), bs |-> bs, terms |-> NoTerms,
             solved |-> <<>>]
       ELSE IF SumSeq(sz) = 0  \* torch.cat of an empty list (offset_loss)
       THEN [ret |-> Raise("RuntimeError"), bs |-> bs, terms |-> NoTerms,
             solved |-> <<>>]
       ELSE IF Len(targets) > bs      \* c[i] with i >= bs
       THEN [ret |-> Raise("IndexError"), bs |-> bs, terms |-> L, solved |-> c]
       ELSE [ret |-> Ok([i \in 1..Len(targets) |-> linear_sum_assignment(c[i])]),
             bs |-> bs, terms |-> L, solved |-> c]

\* The loop of forward() in per-element mode, from batch element b on:
\* acc.ret is the list built so far, acc.calls the forward_ calls made.
RECURSIVE ForwardLoop(_, _, _, _, _)
ForwardLoop(self, outputs, targets, b, acc) ==
    IF b > Len(outputs.labels) THEN [ret |-> Ok(acc.ret), calls |-> acc.calls]
    ELSE IF b > Len(targets)
    THEN [ret |-> Raise("IndexError"), calls |-> acc.calls]   \* targets[b]
    ELSE LET one == [labels |-> <<outputs.labels[b]>>,
                     keypoints |-> <<outputs.keypoints[b]>>]
             r == forward_(self, one, <<targets[b]>>)
             calls1 == Append(acc.calls, [r EXCEPT !.ret = r.ret.ok])
         IN IF ~r.ret.ok THEN [ret |-> r.ret, calls |-> calls1]
            ELSE ForwardLoop(self, outputs, targets, b + 1,
                             [ret |-> Append(acc.ret, r.ret.value[1]),
                              calls |-> calls1])

\* HungarianMatcher.forward: what it returns (or raises) and the forward_
\* calls it makes (of each: whether it returned, its batch size and tensors).
forward(self, outputs, targets) ==
    IF ~self.splited
    THEN LET r == forward_(self, outputs, targets)
         IN [ret |-> r.ret, calls |-> << [r EXCEPT !.ret = r.ret.ok] >>]
    ELSE ForwardLoop(self, outputs, targets, 1, [ret |-> <<>>, calls |-> <<>>])

\* ------------------------------------------------------------------------
\* The inputs of the model: bounded families of predictions and targets
\* ------------------------------------------------------------------------

MaxKeypoints == 2       \* explicit num_keypoints are 1 and MaxKeypoints
MaxCostClass == 2       \* explicit cost_class are 1 and MaxCostClass
MaxCoord == 1           \* fields of the rich encodings are 0 or MaxCoord
MaxQueries == 2         \* num_queries is at most MaxQueries
MaxTargets == 3         \* targets of one batch element
MaxBatch == 2           \* batch size

KwargNames == {"cost_class", "num_keypoints", "splited"}

\* every way of giving some of the constructor's arguments explicitly:
\* kw.given names the arguments given, the other fields are their values
KwargsSet ==
    { [given |-> S, cost_class |-> c, num_keypoints |-> k, splited |-> m] :
        S \in SUBSET KwargNames, c \in {1, MaxCostClass},
        k \in {1, MaxKeypoints}, m \in BOOLEAN }

NoKwargs == [given |-> {}, cost_class |-> 1, num_keypoints |-> 1, splited |-> FALSE]

\* the parsed command line: the defaults, or either argument overridden
ArgsSet ==
    { [set_cost_class |-> c, num_keypoints |-> k] :
        c \in {ParserDefaults.set_cost_class, MaxCostClass},
        k \in {ParserDefaults.num_keypoints, 1, MaxKeypoints} }

\* Flat positions (1-based) of the fields of a keypoint encoding of K keypoints
CenterPos(axis) == axis + 1                       \* axis 0 = x, 1 = y
DeltaPos(K, k, axis) == 2 + 2 * k + axis + 1      \* keypoint k = 0..K-1
VisPos(K, k) == 2 + 2 * K + k + 1

EncodingLen(K) == 2 + 3 * K

\* the fields the families vary: the centre and the first two keypoints
ActivePos(K) ==
    {CenterPos(0), CenterPos(1)}
    \cup {DeltaPos(K, k, a) : k \in 0..(Min2(K, 2) - 1), a \in 0..1}
    \cup {VisPos(K, k) : k \in 0..(Min2(K, 2) - 1)}

\* the encoding that is v1 at position p1, v2 at position p2 and 0 elsewhere
SparseRow(K, p1, v1, p2, v2) ==
    [p \in 1..EncodingLen(K) |-> IF p = p1 THEN v1 ELSE IF p = p2 THEN v2 ELSE 0]

\* encodings with at most two non-zero fields
SparseRows2(K) ==
    { SparseRow(K, p1, v1, p2, v2) :
        p1 \in ActivePos(K), v1 \in {0, MaxCoord},
        p2 \in ActivePos(K), v2 \in {0, MaxCoord} }

\* encodings with at most one non-zero field
SparseRows1(K) ==
    { SparseRow(K, p1, v1, p1, v1) : p1 \in ActivePos(K), v1 \in {0, MaxCoord} }

ZeroRow(K) == [p \in 1..EncodingLen(K) |-> 0]

\* an object at (cx, 0) whose first keypoint is visible
CenterRow(K, cx) == SparseRow(K, CenterPos(0), cx, VisPos(K, 0), 1)

\* the objects of the assignment family: three positions on a line
CenterRows(K) == { CenterRow(K, cx) : cx \in 0..2 }

\* logits that favour class h (0-based): weight MaxLogit on h, 1 elsewhere
FavourRow(h) == [c \in 1..NumClasses |-> IF c = h + 1 THEN MaxLogit ELSE 1]

\* the first and the last class
Labels == {0, NumClasses - 1}

LogitRows == { FavourRow(h) : h \in Labels }

\* ------------------------------------------------------------------------
\* State
\* ------------------------------------------------------------------------

VARIABLES
    self,       \* the matcher: the attributes __init__ sets
    outputs,    \* the predictions of the forward call of this step
    targets,    \* the targets of the forward call of this step
    ret,        \* what the call returned or raised
    calls,      \* the forward_ calls the forward call made
    prev        \* for a repeated call: the targets and the result before

vars == <<self, outputs, targets, ret, calls, prev>>

NoOutputs == [labels |-> <<>>, keypoints |-> <<>>]

NotCalled == Raise("not called")

NoPrev == [kind |-> "none", targets |-> <<>>, ret |-> NotCalled, swap |-> <<>>]

Fresh(m) ==
    /\ self = m
    /\ outputs = NoOutputs
    /\ targets = <<>>
    /\ ret = NotCalled
    /\ calls = <<>>
    /\ prev = NoPrev

\* the matcher of the training program and its two modes: HungarianMatcher()
\* or HungarianMatcher(splited=...), or build_matcher of the default command line
InitDefault ==
    \/ \E kw \in KwargsSet : kw.given \subseteq {"splited"} /\ Fresh(HungarianMatcher(kw))
    \/ Fresh(build_matcher(ParserDefaults))

\* a matcher with explicit cost_class and num_keypoints
InitExplicit ==
    \/ \E kw \in KwargsSet :
          kw.given = {"cost_class", "num_keypoints"} /\ Fresh(HungarianMatcher(kw))
    \/ \E args \in ArgsSet :
          args.num_keypoints <= MaxKeypoints /\ Fresh(build_matcher(args))

\* a matcher of one keypoint, in either mode
InitModes ==
    \E kw \in KwargsSet :
        /\ kw.given = {"num_keypoints", "splited"}
        /\ kw.num_keypoints = 1
        /\ Fresh(HungarianMatcher(kw))

Init == InitDefault \/ InitExplicit \/ InitModes

\* forward(o, t) is called on the matcher (by an action that starts a step)
Call(o, t) ==
    LET r == forward(self, o, t)
    IN /\ outputs' = o
       /\ targets' = t
       /\ ret' = r.ret
       /\ calls' = r.calls
       /\ UNCHANGED self

\* the training step ends: predictions, targets and result are dropped
NextStep ==
    /\ ret # NotCalled
    /\ outputs' = NoOutputs /\ targets' = <<>> /\ ret' = NotCalled
    /\ calls' = <<>> /\ prev' = NoPrev
    /\ UNCHANGED self

\* forward on a query and a target with rich encodings: one field of each
\* is non-zero, or two fields of the target are. With pad, a plain query
\* precedes the rich one and a plain target follows the rich one.
ForwardPair ==
    /\ ret = NotCalled
    /\ \E lg \in LogitRows, lab \in Labels, both \in BOOLEAN, pad \in BOOLEAN :
      \E kq \in IF both THEN SparseRows1(self.num_keypoints)
                ELSE {ZeroRow(self.num_keypoints)},
         kt \in IF both THEN SparseRows1(self.num_keypoints)
                ELSE SparseRows2(self.num_keypoints) :
        /\ Call([labels |-> << IF pad THEN <<FavourRow(0), lg>> ELSE <<lg>> >>,
                 keypoints |-> << IF pad
                                  THEN <<CenterRow(self.num_keypoints, 1), kq>>
                                  ELSE <<kq>> >>],
                << [labels |-> IF pad THEN <<lab, 0>> ELSE <<lab>>,
                    keypoints |-> IF pad
                                  THEN <<kt, CenterRow(self.num_keypoints, 0)>>
                                  ELSE <<kt>>] >>)
        /\ prev' = NoPrev

\* forward on a batch of one element: up to MaxQueries queries that favour
\* class 0 against up to MaxTargets targets of class 0 (possibly none)
ForwardAssign ==
    /\ ret = NotCalled
    /\ \E nq \in 1..MaxQueries, nt \in 0..MaxTargets :
      \E kq \in [1..nq -> CenterRows(self.num_keypoints)],
         kt \in [1..nt -> CenterRows(self.num_keypoints)] :
        /\ Call([labels |-> << [q \in 1..nq |-> FavourRow(0)] >>,
                 keypoints |-> <<kq>>],
                << [labels |-> [t \in 1..nt |-> 0], keypoints |-> kt] >>)
        /\ prev' = NoPrev

\* the targets of one batch element with targets i and j exchanged
SwapTargets(tg, i, j) ==
    LET at(k) == IF k = i THEN j ELSE IF k = j THEN i ELSE k
    IN [labels |-> [k \in 1..Len(tg.labels) |-> tg.labels[at(k)]],
        keypoints |-> [k \in 1..Len(tg.keypoints) |-> tg.keypoints[at(k)]]]

\* the caller repeats the call of a one-element batch with two neighbouring
\* targets of the element exchanged (labels and keypoint rows together)
ForwardSwapped ==
    \E i \in 1..MaxTargets, j \in 1..MaxTargets :
        /\ j = i + 1
        /\ ret.ok
        /\ prev = NoPrev
        /\ Len(targets) = 1
        /\ j <= Len(targets[1].labels)
        /\ LET t2 == << SwapTargets(targets[1], i, j) >>
               r == forward(self, outputs, t2)
           IN /\ targets' = t2
              /\ ret' = r.ret
              /\ calls' = r.calls
              /\ prev' = [kind |-> "swap", targets |-> targets, ret |-> ret,
                          swap |-> <<i, j>>]
        /\ UNCHANGED <<self, outputs>>

\* the q-th query of batch element b of the multi-element batches
BatchQuery(K, b, q) == CenterRow(K, (b + q) % 2)

\* the n targets of target entry e: class 0, alternating between the two
\* positions, the first one far for odd e
AlternatingTargets(K, e, n) ==
    [labels |-> [t \in 1..n |-> 0],
     keypoints |-> [t \in 1..n |-> CenterRow(K, (e + t + 1) % 2)]]

\* forward on a batch of up to MaxBatch elements of MaxQueries queries, with
\* as many target entries as batch elements, or one fewer, or one more
ForwardBatch ==
    /\ ret = NotCalled
    /\ \E bs \in 1..MaxBatch, d \in {-1, 0, 1} :
      \E nt \in [1..(bs + d) -> 0..MaxTargets] :
        /\ Call([labels |-> [b \in 1..bs |-> [q \in 1..MaxQueries |-> FavourRow(0)]],
                 keypoints |-> [b \in 1..bs |->
                                  [q \in 1..MaxQueries |->
                                     BatchQuery(self.num_keypoints, b, q)]]],
                [e \in 1..(bs + d) |->
                   AlternatingTargets(self.num_keypoints, e, nt[e])])
        /\ prev' = NoPrev

\* element bp of a batch with its targets replaced by the n targets of
\* entry e, and, if newq, its queries by those of the element after it
ReplaceElement(K, o, t, bp, e, n, newq) ==
    [o |-> [o EXCEPT !.keypoints[bp] =
              IF newq THEN [q \in 1..Len(@) |-> BatchQuery(K, bp + 1, q)] ELSE @],
     t |-> [t EXCEPT ![bp] = AlternatingTargets(K, e, n)]]

\* the caller repeats the call of a batch of several elements with one
\* element bp changed: other targets (values or count), other predictions
\* or both; prev.swap keeps the index of the changed element
ForwardOtherChanged ==
    /\ ret.ok
    /\ prev = NoPrev
    /\ Len(targets) = Len(outputs.labels)
    /\ Len(targets) > 1
    /\ \E bp \in 1..Len(targets), e \in 1..2, n \in 0..MaxTargets, newq \in BOOLEAN :
         LET in2 == ReplaceElement(self.num_keypoints, outputs, targets,
                                   bp, e, n, newq)
             r == forward(self, in2.o, in2.t)
         IN /\ (in2.o # outputs \/ in2.t # targets)
            /\ outputs' = in2.o
            /\ targets' = in2.t
            /\ ret' = r.ret
            /\ calls' = r.calls
            /\ prev' = [kind |-> "other", targets |-> targets, ret |-> ret,
                        swap |-> <<bp>>]
    /\ UNCHANGED self

NextCost == ForwardPair \/ NextStep

SpecCost == InitExplicit /\ [][NextCost]_vars

NextAssign == ForwardAssign \/ ForwardSwapped \/ NextStep

SpecAssign == InitModes /\ [][NextAssign]_vars

NextBatch == ForwardBatch \/ NextStep

SpecBatch == InitDefault /\ [][NextBatch]_vars

NextIsolation == ForwardBatch \/ ForwardOtherChanged \/ NextStep

SpecIsolation == InitModes /\ [][NextIsolation]_vars

Next ==
    \/ ForwardPair \/ ForwardAssign \/ ForwardSwapped
    \/ ForwardBatch \/ ForwardOtherChanged \/ NextStep

Spec == Init /\ [][Next]_vars

\* ------------------------------------------------------------------------
\* Properties
\* ------------------------------------------------------------------------

Called == ret # NotCalled

BatchSize == Len(outputs.labels)

NumQueries(b) == Len(outputs.labels[b])

NumTargets(b) == Len(targets[b].labels)

\* the (prediction index, target index) pairs of one assignment result
PairsOf(r) == { <<r[1][k], r[2][k]>> : k \in 1..Len(r[1]) }

Injective(s) == \A k1, k2 \in 1..Len(s) : s[k1] = s[k2] => k1 = k2

\* the matrix handed to the solver for batch element b of the call
SolvedFor(b) == IF self.splited THEN calls[b].solved[1] ELSE calls[1].solved[b]

\* every one-to-one assignment of min(nq, nt) pairs, 0-based
AllAssignments(nq, nt) ==
    IF nq <= nt
    THEN { { <<q - 1, f[q] - 1>> : q \in 1..nq } :
             f \in { g \in [1..nq -> 1..nt] :
                       \A q1, q2 \in 1..nq : g[q1] = g[q2] => q1 = q2 } }
    ELSE { { <<f[t] - 1, t - 1>> : t \in 1..nt } :
             f \in { g \in [1..nt -> 1..nq] :
                       \A t1, t2 \in 1..nt : g[t1] = g[t2] => t1 = t2 } }

RECURSIVE TotalCost(_, _)
TotalCost(C, pairs) ==
    IF pairs = {} THEN 0
    ELSE LET pr == CHOOSE x \in pairs : TRUE
         IN C[pr[1] + 1][pr[2] + 1] + TotalCost(C, pairs \ {pr})

IsMinimum(C, pairs) ==
    \A a \in AllAssignments(NumRows(C), NumCols(C)) :
        TotalCost(C, pairs) <= TotalCost(C, a)

UniqueMinimum(C) ==
    \E a \in AllAssignments(NumRows(C), NumCols(C)) :
        \A a2 \in AllAssignments(NumRows(C), NumCols(C)) :
            a2 # a => TotalCost(C, a) < TotalCost(C, a2)

\* C1: whenever forward returns, every element's result has
\* len(pred_indices) = len(target_indices) = min(num_queries, num_targets),
\* pred_indices are distinct values of [0, num_queries) and target_indices
\* distinct values of [0, num_targets) of that element.
C1_ResultShape ==
    ret.ok =>
      \A b \in 1..Len(ret.value) :
        LET p == ret.value[b][1]
            t == ret.value[b][2]
        IN /\ Len(p) = Len(t)
           /\ Len(p) = Min2(NumQueries(b), NumTargets(b))
           /\ \A k \in 1..Len(p) : p[k] \in 0..(NumQueries(b) - 1)
           /\ \A k \in 1..Len(t) : t[k] \in 0..(NumTargets(b) - 1)
           /\ Injective(p) /\ Injective(t)

C1_Witness ==
    /\ ret.ok /\ Len(ret.value) = 2
    /\ NumTargets(1) > NumQueries(1)
    /\ 0 < NumTargets(2) /\ NumTargets(2) < NumQueries(2)
    /\ Len(ret.value[1][1]) = NumQueries(1)
    /\ Len(ret.value[2][1]) = NumTargets(2)

\* C2 (as claimed): for every batch with one target entry per batch element,
\* joint mode and per-element mode return the same list of results.
C2_JointEqualsSplit ==
    (Called /\ Len(targets) = BatchSize) =>
        forward([self EXCEPT !.splited = ~self.splited], outputs, targets).ret = ret

\* C3 (as claimed): a batch element with zero targets gets ([], []) and the
\* call does not raise, whatever the other elements' target counts.
C3_ZeroTargetsEmpty ==
    (Called /\ Len(targets) = BatchSize) =>
        \A b \in 1..BatchSize :
            NumTargets(b) = 0 => (ret.ok /\ ret.value[b] = << <<>>, <<>> >>)

\* C4: the returned assignment of every element has minimum total cost among
\* all one-to-one assignments of min(num_queries, num_targets) pairs.
C4_MinimumCost ==
    ret.ok =>
      \A b \in 1..Len(ret.value) : IsMinimum(SolvedFor(b), PairsOf(ret.value[b]))

C4_Witness ==
    /\ ret.ok /\ Len(ret.value) = 1
    /\ NumQueries(1) # NumTargets(1) /\ NumTargets(1) > 1
    /\ \E q \in 1..NumQueries(1), t \in 1..NumTargets(1) : SolvedFor(1)[q][t] < 0
    /\ \E q \in 1..NumQueries(1), t \in 1..NumTargets(1) : SolvedFor(1)[q][t] > 0
    /\ \E a \in AllAssignments(NumQueries(1), NumTargets(1)) :
          TotalCost(SolvedFor(1), a) > TotalCost(SolvedFor(1), PairsOf(ret.value[1]))

\* C5 (as claimed): when the number of target entries differs from the
\* batch size, forward raises.
C5_MismatchAborts ==
    (Called /\ Len(targets) # BatchSize) => ~ret.ok

\* the outputs and the targets of the k-th forward_ call of the forward call
CallOutputs(k) ==
    IF self.splited
    THEN [labels |-> <<outputs.labels[k]>>, keypoints |-> <<outputs.keypoints[k]>>]
    ELSE outputs

CallTargets(k) == IF self.splited THEN <<targets[k]>> ELSE targets

\* The cost the claim gives for the prediction (logits lg, encoding kq) and
\* the target (class lab, encoding kt), in units of 1 / (10 * ProbUnit):
\* cost_class * (-P[lab]) + 0.5 D + 0.2 V + 0.5 Ctr + 4.0 A
ClaimedCost(lg, kq, lab, kt) ==
    LET K == self.num_keypoints
        kps == 1..K
        vis(row, k) == row[2 + 2 * K + k]
        delta(row, k, axis) == row[2 + 2 * (k - 1) + axis]
        centre(row, axis) == row[axis]
        P == (lg[lab + 1] * ProbUnit) \div SumSeq(lg)
        D == SumSeq([k \in kps |->
                 Abs(vis(kt, k) * (delta(kq, k, 1) - delta(kt, k, 1)))
               + Abs(vis(kt, k) * (delta(kq, k, 2) - delta(kt, k, 2)))])
        V == SumSeq([k \in kps |->
                 (vis(kq, k) - vis(kt, k)) * (vis(kq, k) - vis(kt, k))])
        Ctr == (centre(kq, 1) - centre(kt, 1)) * (centre(kq, 1) - centre(kt, 1))
             + (centre(kq, 2) - centre(kt, 2)) * (centre(kq, 2) - centre(kt, 2))
        A == SumSeq([k \in kps |->
                 Abs(vis(kt, k) * ((centre(kq, 1) + delta(kq, k, 1))
                                   - (centre(kt, 1) + delta(kt, k, 1))))
               + Abs(vis(kt, k) * ((centre(kq, 2) + delta(kq, k, 2))
                                   - (centre(kt, 2) + delta(kt, k, 2))))])
    IN self.cost_class * 10 * (-P) + ProbUnit * (5 * D + 2 * V + 5 * Ctr + 40 * A)

\* C6: every entry (i, j) of the matrix handed to the solver for a batch
\* element is cost_class * (-P_i[label_j]) + 0.5 D + 0.2 V + 0.5 Ctr + 4.0 A
\* of the element's query i and target j.
C6_CostFormula ==
    Called =>
      \A b \in 1..Min2(BatchSize, Len(targets)) :
        (IF self.splited THEN b <= Len(calls) /\ calls[b].solved # <<>>
                         ELSE b <= Len(calls[1].solved)) =>
          /\ NumRows(SolvedFor(b)) = NumQueries(b)
          /\ \A q \in 1..NumQueries(b) :
               /\ Len(SolvedFor(b)[q]) = NumTargets(b)
               /\ \A t \in 1..NumTargets(b) :
                    SolvedFor(b)[q][t] =
                      ClaimedCost(outputs.labels[b][q], outputs.keypoints[b][q],
                                  targets[b].labels[t], targets[b].keypoints[t])

C6_Witness ==
    /\ ret.ok
    /\ self.num_keypoints = 2
    /\ self.cost_class = 2
    /\ NumQueries(1) = 2 /\ NumTargets(1) = 2
    /\ \E n \in 1..2, t \in 1..2 :
          /\ calls[1].terms.offset_loss[n][t] > 0
          /\ calls[1].terms.abs_loss[n][t] > 0
    /\ \E n \in 1..2, t \in 1..2 : calls[1].terms.viz_loss[n][t] > 0
    /\ \E n \in 1..2, t \in 1..2 : calls[1].terms.center_loss[n][t] > 0

\* the targets ts with the deltas of the t-th target (counted over the whole
\* list) replaced by z
RECURSIVE ReplaceDeltas(_, _, _)
ReplaceDeltas(ts, t, z) ==
    IF ts = <<>> THEN <<>>
    ELSE LET n == Len(Head(ts).keypoints)
         IN IF t > n THEN <<Head(ts)>> \o ReplaceDeltas(Tail(ts), t - n, z)
            ELSE << [Head(ts) EXCEPT !.keypoints[t] =
                       [p \in 1..Len(@) |->
                          IF p > 2 /\ p <= 2 + Len(z) THEN z[p - 2] ELSE @[p]]] >>
                 \o Tail(ts)

\* the outputs o with the deltas of every prediction replaced by z
ReplacePredDeltas(o, z) ==
    [o EXCEPT !.keypoints =
       [b \in 1..Len(@) |->
          [q \in 1..Len(@[b]) |->
             [p \in 1..Len(@[b][q]) |->
                IF p > 2 /\ p <= 2 + Len(z) THEN z[p - 2] ELSE @[b][q][p]]]]]

\* delta vectors to replace with: constant ones and single non-zero entries
DeltaChoices(K) ==
    { [p \in 1..(2 * K) |-> v] : v \in 0..(MaxCoord + 1) }
    \cup { [p \in 1..(2 * K) |-> IF p = p0 THEN MaxCoord + 1 ELSE 0] :
             p0 \in 1..(2 * Min2(K, 2)) }

\* C9: for a target whose ground-truth visibilities are all zero, the
\* delta-offset term and the absolute-position term are zero for every
\* query, both stay the same when the target's deltas are replaced, and the
\* delta-offset term also when the predictions' deltas are.
C9_InvisibleTargetCostsNothing ==
    Called =>
      \A k \in 1..Len(calls) :
        calls[k].terms # NoTerms =>
          LET K == self.num_keypoints
              rows == cat([e \in 1..Len(CallTargets(k)) |-> CallTargets(k)[e].keypoints])
              L == calls[k].terms
          IN \A t \in 1..Len(rows) :
               (\A kp \in 1..K : rows[t][2 + 2 * K + kp] = 0) =>
                 /\ \A n \in 1..Len(L.offset_loss) :
                      L.offset_loss[n][t] = 0 /\ L.abs_loss[n][t] = 0
                 /\ \A z \in DeltaChoices(K) :
                      LET L2 == LossTerms(self, CallOutputs(k),
                                          ReplaceDeltas(CallTargets(k), t, z))
                          L3 == LossTerms(self, ReplacePredDeltas(CallOutputs(k), z),
                                          CallTargets(k))
                      IN \A n \in 1..Len(L.offset_loss) :
                           /\ L2.offset_loss[n][t] = L.offset_loss[n][t]
                           /\ L2.abs_loss[n][t] = L.abs_loss[n][t]
                           /\ L3.offset_loss[n][t] = L.offset_loss[n][t]

C9_Witness ==
    /\ ret.ok
    /\ self.num_keypoints = 2
    /\ NumTargets(1) = 1
    /\ \A kp \in 1..2 : targets[1].keypoints[1][2 + 2 * 2 + kp] = 0
    /\ \E p \in 3..6 : targets[1].keypoints[1][p] # 0
    /\ calls[1].terms.offset_loss[1][1] = 0
    /\ calls[1].terms.abs_loss[1][1] = 0

\* the new index of target index t (0-based) after targets i and j (1-based)
\* changed places
Relabel(swap, t) ==
    IF t = swap[1] - 1 THEN swap[2] - 1
    ELSE IF t = swap[2] - 1 THEN swap[1] - 1 ELSE t

SwapEquivariant ==
    { <<pr[1], Relabel(prev.swap, pr[2])>> : pr \in PairsOf(ret.value[1]) }
        = PairsOf(prev.ret.value[1])

\* C7 (as claimed): after two targets of an element change places, the result
\* is the result before with target_indices relabelled, ties or not. Stated
\* here for two targets that differ, so that the target's identity is plain.
C7_SwapEquivariantAlways ==
    ( /\ prev.kind = "swap" /\ ret.ok
      /\ targets[1].keypoints[prev.swap[1]] # targets[1].keypoints[prev.swap[2]] )
        => SwapEquivariant

\* C7 (amended): the same, when the minimum-cost assignment of the element's
\* cost matrix is unique.
C7_SwapEquivariantIfUnique ==
    (prev.kind = "swap" /\ ret.ok /\ UniqueMinimum(SolvedFor(1))) => SwapEquivariant

C7_Witness ==
    /\ prev.kind = "swap" /\ ret.ok
    /\ UniqueMinimum(SolvedFor(1))
    /\ NumTargets(1) = 3
    /\ ret.value[1] # prev.ret.value[1]
    /\ SwapEquivariant

\* the targets of element b that the result leaves unmatched (0-based)
Unmatched(b) ==
    (0..(NumTargets(b) - 1)) \ { ret.value[b][2][k] : k \in 1..Len(ret.value[b][2]) }

\* the minimum cost of target t (0-based) to any query of element b
MinCostToAnyQuery(b, t) ==
    LET C == SolvedFor(b)
    IN CHOOSE m \in { C[q][t + 1] : q \in 1..NumRows(C) } :
         \A q \in 1..NumRows(C) : m <= C[q][t + 1]

\* C8 (as claimed): with more targets than queries the result has length
\* num_queries and leaves num_targets - num_queries targets out; with 2
\* queries and 3 targets the target left out is the one whose minimum cost to
\* any query is highest.
C8_UnmatchedHasHighestMinCost ==
    ret.ok =>
      \A b \in 1..Len(ret.value) :
        NumTargets(b) > NumQueries(b) =>
          /\ Len(ret.value[b][1]) = NumQueries(b)
          /\ Cardinality(Unmatched(b)) = NumTargets(b) - NumQueries(b)
          /\ (NumQueries(b) = 2 /\ NumTargets(b) = 3) =>
               \A u \in Unmatched(b) : \A t \in 0..(NumTargets(b) - 1) :
                   MinCostToAnyQuery(b, u) >= MinCostToAnyQuery(b, t)

\* C8 (amended): with more targets than queries the result has length
\* num_queries and leaves num_targets - num_queries targets out; the targets
\* left out are those a minimum-cost assignment leaves out.
C8_UnmatchedByMinimumCost ==
    ret.ok =>
      \A b \in 1..Len(ret.value) :
        NumTargets(b) > NumQueries(b) =>
          /\ Len(ret.value[b][1]) = NumQueries(b)
          /\ Cardinality(Unmatched(b)) = NumTargets(b) - NumQueries(b)
          /\ \A a \in AllAssignments(NumQueries(b), NumTargets(b)) :
               TotalCost(SolvedFor(b), PairsOf(ret.value[b]))
                 <= TotalCost(SolvedFor(b), a)

C8_Witness ==
    /\ ret.ok /\ Len(ret.value) = 1
    /\ NumQueries(1) = 2 /\ NumTargets(1) = 3
    /\ Cardinality(Unmatched(1)) = 1
    /\ \E u \in Unmatched(1) : \E t \in 0..2 :
          MinCostToAnyQuery(1, u) < MinCostToAnyQuery(1, t)

ConstructedByDefault ==
    self = HungarianMatcher(NoKwargs) \/ self = build_matcher(ParserDefaults)

\* C10 (as claimed): a matcher constructed without explicit configuration
\* has cost_class 1, num_keypoints 24 and joint mode: forward makes one
\* forward_ call on the whole batch.
C10_DefaultIsJoint ==
    ConstructedByDefault =>
      /\ self.cost_class = 1
      /\ self.num_keypoints = 24
      /\ ~self.splited
      /\ Called => (Len(calls) = 1 /\ calls[1].bs = BatchSize)

\* C10 (amended): a matcher constructed without explicit configuration has
\* cost_class 1, num_keypoints 24 and per-element mode (splited = True):
\* forward makes one forward_ call per batch element, each on a one-element
\* slice, as long as no call raises.
C10_DefaultIsPerElement ==
    ConstructedByDefault =>
      /\ self.cost_class = 1
      /\ self.num_keypoints = 24
      /\ self.splited
      /\ Called => /\ \A k \in 1..Len(calls) : calls[k].bs = 1
                   /\ Len(calls) <= BatchSize
                   /\ ret.ok => Len(calls) = BatchSize

C10_Witness ==
    /\ ConstructedByDefault
    /\ ret.ok
    /\ BatchSize = 2
    /\ Len(calls) = 2

\* the matrix of batch element b of the call alone: entry (q, t) is the cost
\* of query q of element b against target t of target entry b, computed on
\* that pair only
OwnMatrix(b) ==
    [q \in 1..NumQueries(b) |->
       [t \in 1..NumTargets(b) |->
          CostMatrix(self,
                     [labels |-> << <<outputs.labels[b][q]>> >>,
                      keypoints |-> << <<outputs.keypoints[b][q]>> >>],
                     << [labels |-> <<targets[b].labels[t]>>,
                         keypoints |-> <<targets[b].keypoints[t]>>] >>)[1][1]]]

\* the assignments of the elements that the repeated call left alone are
\* those of the call before
OthersUnchanged ==
    \A b \in 1..BatchSize :
        b # prev.swap[1] => ret.value[b] = prev.ret.value[b]

\* C11 (as claimed): in joint mode the matrix given to the solver for element
\* b is the rows of b's queries against the columns of b's own targets, and
\* after another element of the batch is changed (predictions, target
\* values or target count) the call returns the same assignment for b.
C11_OtherElementsDoNotMatter ==
    (~self.splited /\ Called /\ Len(targets) = BatchSize)
      => /\ ret.ok => \A b \in 1..BatchSize : SolvedFor(b) = OwnMatrix(b)
         /\ prev.kind = "other" => (ret.ok /\ OthersUnchanged)

\* C11, the part the code keeps: the matrices are the elements' own, and the
\* repeated joint call returns the same assignments for the other elements
\* unless it raises, which it does only when no target is left in the batch.
C11_OtherElementsDoNotMatterUnlessNoTargets ==
    (~self.splited /\ Called /\ Len(targets) = BatchSize)
      => /\ ret.ok => \A b \in 1..BatchSize : SolvedFor(b) = OwnMatrix(b)
         /\ prev.kind = "other" =>
              /\ ret.ok => OthersUnchanged
              /\ ~ret.ok => SumSeq(sizes(targets)) = 0

\* a repeated joint call returned after the count of the targets of another
\* element changed, which moved the columns of the last element
C11_Witness ==
    /\ ~self.splited /\ prev.kind = "other" /\ ret.ok
    /\ BatchSize = 2 /\ prev.swap[1] = 1
    /\ NumTargets(1) # Len(prev.targets[1].labels)
    /\ NumTargets(2) > 1
    /\ Len(ret.value[2][1]) > 1
====
